---- MODULE Spec2Model ----
(***************************************************************************)
(* FlashFX design tool: the snapping / element-transform engine.           *)
(*                                                                         *)
(*   src/src/hooks/useSnapping.ts                         detectSnaps      *)
(*   src/src/components/design-tool/                                        *)
(*       EnhancedDesignElementComponent.tsx   drag, resize, clamp           *)
(*       Canvas.tsx                           onUpdate, clamp, SnapGuides   *)
(*                                                                         *)
(* JavaScript numbers are modelled as exact rationals <<n, d>> (d > 0,     *)
(* lowest terms) extended with +Infinity <<1,0>>, -Infinity <<-1,0>> and   *)
(* NaN <<0,0>>, so that width / 2, 8 / zoom and the aspect ratios are      *)
(* computed as the code computes them.                                     *)
(***************************************************************************)
EXTENDS Integers, Sequences, FiniteSets, TLC

-----------------------------------------------------------------------------
(* Numbers                                                                 *)

AbsInt(i) == IF i < 0 THEN -i ELSE i

SgnInt(i) == IF i < 0 THEN -1 ELSE IF i > 0 THEN 1 ELSE 0

RECURSIVE GCD(_, _)
GCD(a, b) == IF b = 0 THEN a ELSE GCD(b, a % b)

Norm(n, d) ==
  IF d = 0 THEN <<SgnInt(n), 0>>
  ELSE LET g == GCD(AbsInt(n), AbsInt(d))
           s == IF d < 0 THEN -1 ELSE 1
       IN  <<(s * n) \div g, (s * d) \div g>>

I(n) == <<n, 1>>

NaN == <<0, 0>>

IsNaN(a) == a = NaN

RNeg(a) == <<-a[1], a[2]>>

RAdd(a, b) ==
  IF IsNaN(a) \/ IsNaN(b) THEN NaN
  ELSE IF a[2] = 0 /\ b[2] = 0 THEN (IF a[1] = b[1] THEN a ELSE NaN)
  ELSE IF a[2] = 0 THEN a
  ELSE IF b[2] = 0 THEN b
  ELSE LET g == GCD(a[2], b[2])
       IN  Norm(a[1] * (b[2] \div g) + b[1] * (a[2] \div g), (a[2] \div g) * b[2])

RSub(a, b) == RAdd(a, RNeg(b))

\* both operands are in lowest terms: reducing across keeps the product so
RMul(a, b) ==
  IF a[2] = 0 \/ b[2] = 0 THEN <<SgnInt(a[1]) * SgnInt(b[1]), 0>>
  ELSE LET g == GCD(AbsInt(a[1]), b[2])
           h == GCD(AbsInt(b[1]), a[2])
       IN  <<(a[1] \div g) * (b[1] \div h), (a[2] \div h) * (b[2] \div g)>>

RRecip(a) == IF a[1] < 0 THEN <<-a[2], -a[1]>> ELSE <<a[2], a[1]>>

RDiv(a, b) == RMul(a, RRecip(b))

RLt(a, b) ==
  IF IsNaN(a) \/ IsNaN(b) THEN FALSE
  ELSE IF a[2] = 0 /\ b[2] = 0 THEN a[1] < b[1]
  ELSE IF a[2] = 0 \/ b[2] = 0 THEN a[1] * b[2] < b[1] * a[2]
  ELSE LET g == GCD(a[2], b[2])
       IN  a[1] * (b[2] \div g) < b[1] * (a[2] \div g)

RLe(a, b) == IF IsNaN(a) \/ IsNaN(b) THEN FALSE ELSE ~RLt(b, a)

RNe(a, b) == IsNaN(a) \/ IsNaN(b) \/ a # b

MathAbs(a) == <<AbsInt(a[1]), a[2]>>

MathMax(a, b) ==
  IF IsNaN(a) \/ IsNaN(b) THEN NaN ELSE IF RLt(a, b) THEN b ELSE a

MathMin(a, b) ==
  IF IsNaN(a) \/ IsNaN(b) THEN NaN ELSE IF RLt(b, a) THEN b ELSE a

Half(a) == RDiv(a, I(2))

\* an absent optional number (x?: number): the empty tuple, no <<n, d>>
Undefined == <<>>

-----------------------------------------------------------------------------
(* Program constants                                                       *)

CANVAS_WIDTH == 3840

CANVAS_HEIGHT == 2160

SNAP_THRESHOLD == 8

CanvasSize == [width |-> I(CANVAS_WIDTH), height |-> I(CANVAS_HEIGHT)]

CanvasCenter == [x |-> Half(CanvasSize.width), y |-> Half(CanvasSize.height)]

-----------------------------------------------------------------------------
(* Canvas clamp                                                            *)

clampToCanvas_noFloor(canvasSize, x, y, width, height) ==
  [x |-> MathMin(RSub(canvasSize.width, width), x),
   y |-> MathMin(RSub(canvasSize.height, height), y)]

clampToCanvas_floorLast(canvasSize, x, y, width, height) ==
  [x |-> MathMin(RSub(canvasSize.width, width), MathMax(I(0), x)),
   y |-> MathMin(RSub(canvasSize.height, height), MathMax(I(0), y))]

\* EnhancedDesignElementComponent.clampToCanvas
clampToCanvas(canvasSize, x, y, width, height) ==
  [x |-> MathMax(I(0), MathMin(RSub(canvasSize.width, width), x)),
   y |-> MathMax(I(0), MathMin(RSub(canvasSize.height, height), y))]

CanvasClampToCanvas_identity(x, y, width, height) ==
  [x |-> x, y |-> y]

\* Canvas.clampToCanvas (same arithmetic over the module constants)
CanvasClampToCanvas(x, y, width, height) ==
  [x |-> MathMax(I(0), MathMin(RSub(I(CANVAS_WIDTH), width), x)),
   y |-> MathMax(I(0), MathMin(RSub(I(CANVAS_HEIGHT), height), y))]

-----------------------------------------------------------------------------
(* Snap detector (useSnapping.ts)                                          *)

getElementBounds(element) ==
  [left    |-> element.x,
   right   |-> RAdd(element.x, element.width),
   top     |-> element.y,
   bottom  |-> RAdd(element.y, element.height),
   centerX |-> RAdd(element.x, Half(element.width)),
   centerY |-> RAdd(element.y, Half(element.height)),
   width   |-> element.width,
   height  |-> element.height]

\* movingBounds / currentMovingBounds: the moving element placed at (x, y)
MovingBounds(movingElement, x, y) ==
  [left    |-> x,
   right   |-> RAdd(x, movingElement.width),
   top     |-> y,
   bottom  |-> RAdd(y, movingElement.height),
   centerX |-> RAdd(x, Half(movingElement.width)),
   centerY |-> RAdd(y, Half(movingElement.height))]

Threshold_noZoom(zoom) == I(SNAP_THRESHOLD)

\* const threshold = SNAP_THRESHOLD / zoom
Threshold(zoom) == RDiv(I(SNAP_THRESHOLD), zoom)

\* Math.abs(a - b) < threshold
Near(a, b, threshold) == RLt(MathAbs(RSub(a, b)), threshold)

EDGE_COLOR == "#FF8C00"

CENTER_COLOR == "#FFD700"

Guide(id, type, position, color) ==
  [id |-> id, type |-> type, position |-> position, color |-> color]

ElementGuideId(index, check) == "element-" \o ToString(index) \o "-" \o check

\* What one axis of one stage yields: the coordinate and the guides pushed.
Hit(v, g) == [v |-> v, g |-> <<g>>]

Miss(v) == [v |-> v, g |-> <<>>]

\* Canvas edges, X: left edge, else right edge
CanvasEdgeX(st, movingElement, mb, canvasSize, threshold) ==
  IF Near(mb.left, I(0), threshold)
    THEN Hit(I(0), Guide("canvas-left", "vertical", I(0), EDGE_COLOR))
  ELSE IF Near(mb.right, canvasSize.width, threshold)
    THEN Hit(RSub(canvasSize.width, movingElement.width),
             Guide("canvas-right", "vertical", canvasSize.width, EDGE_COLOR))
  ELSE Miss(st.x)

\* Canvas edges, Y: top edge, else bottom edge
CanvasEdgeY(st, movingElement, mb, canvasSize, threshold) ==
  IF Near(mb.top, I(0), threshold)
    THEN Hit(I(0), Guide("canvas-top", "horizontal", I(0), EDGE_COLOR))
  ELSE IF Near(mb.bottom, canvasSize.height, threshold)
    THEN Hit(RSub(canvasSize.height, movingElement.height),
             Guide("canvas-bottom", "horizontal", canvasSize.height, EDGE_COLOR))
  ELSE Miss(st.y)

\* Canvas center X: an if of its own, on the candidate's bounds
CanvasCenterX(st, movingElement, mb, canvasCenter, threshold) ==
  IF Near(mb.centerX, canvasCenter.x, threshold)
    THEN Hit(RSub(canvasCenter.x, Half(movingElement.width)),
             Guide("canvas-center-x", "vertical", canvasCenter.x, CENTER_COLOR))
  ELSE Miss(st.x)

\* Canvas center Y
CanvasCenterY(st, movingElement, mb, canvasCenter, threshold) ==
  IF Near(mb.centerY, canvasCenter.y, threshold)
    THEN Hit(RSub(canvasCenter.y, Half(movingElement.height)),
             Guide("canvas-center-y", "horizontal", canvasCenter.y, CENTER_COLOR))
  ELSE Miss(st.y)

\* A stage whose X check pushes its guide before its Y check
PushXY(st, xs, ys) ==
  [x |-> xs.v, y |-> ys.v, guides |-> st.guides \o xs.g \o ys.g]

PushYX_keepFirst(st, ys, xs) ==
  [x |-> IF st.guides # <<>> THEN st.x ELSE xs.v,
   y |-> IF st.guides # <<>> THEN st.y ELSE ys.v,
   guides |-> st.guides \o ys.g \o xs.g]

\* A stage whose Y check pushes its guide before its X check
PushYX(st, ys, xs) ==
  [x |-> xs.v, y |-> ys.v, guides |-> st.guides \o ys.g \o xs.g]

\* if (canvasSize) { left / right; top / bottom }
CanvasEdgeSnaps(st, movingElement, mb, canvasSize, threshold) ==
  PushXY(st, CanvasEdgeX(st, movingElement, mb, canvasSize, threshold),
             CanvasEdgeY(st, movingElement, mb, canvasSize, threshold))

\* center X, then center Y
CanvasCenterSnaps(st, movingElement, mb, canvasCenter, threshold) ==
  PushXY(st, CanvasCenterX(st, movingElement, mb, canvasCenter, threshold),
             CanvasCenterY(st, movingElement, mb, canvasCenter, threshold))

SiblingY_stackTopAtTop(st, movingElement, cmb, bounds, index, threshold) ==
  IF Near(cmb.top, bounds.top, threshold)
    THEN Hit(bounds.top,
             Guide(ElementGuideId(index, "top"), "horizontal", bounds.top, EDGE_COLOR))
  ELSE IF Near(cmb.bottom, bounds.bottom, threshold)
    THEN Hit(RSub(bounds.bottom, movingElement.height),
             Guide(ElementGuideId(index, "bottom"), "horizontal", bounds.bottom, EDGE_COLOR))
  ELSE IF Near(cmb.top, bounds.bottom, threshold)
    THEN Hit(bounds.bottom,
             Guide(ElementGuideId(index, "stack-bottom"), "horizontal", bounds.bottom, EDGE_COLOR))
  ELSE IF Near(cmb.bottom, bounds.top, threshold)
    THEN Hit(bounds.top,
             Guide(ElementGuideId(index, "stack-top"), "horizontal", bounds.top, EDGE_COLOR))
  ELSE IF Near(cmb.centerY, bounds.centerY, threshold)
    THEN Hit(RSub(bounds.centerY, Half(movingElement.height)),
             Guide(ElementGuideId(index, "center-y"), "horizontal", bounds.centerY, CENTER_COLOR))
  ELSE Miss(st.y)

\* One sibling, Y axis: top-top, bottom-bottom, top-bottom, bottom-top, center
SiblingY(st, movingElement, cmb, bounds, index, threshold) ==
  IF Near(cmb.top, bounds.top, threshold)
    THEN Hit(bounds.top,
             Guide(ElementGuideId(index, "top"), "horizontal", bounds.top, EDGE_COLOR))
  ELSE IF Near(cmb.bottom, bounds.bottom, threshold)
    THEN Hit(RSub(bounds.bottom, movingElement.height),
             Guide(ElementGuideId(index, "bottom"), "horizontal", bounds.bottom, EDGE_COLOR))
  ELSE IF Near(cmb.top, bounds.bottom, threshold)
    THEN Hit(bounds.bottom,
             Guide(ElementGuideId(index, "stack-bottom"), "horizontal", bounds.bottom, EDGE_COLOR))
  ELSE IF Near(cmb.bottom, bounds.top, threshold)
    THEN Hit(RSub(bounds.top, movingElement.height),
             Guide(ElementGuideId(index, "stack-top"), "horizontal", bounds.top, EDGE_COLOR))
  ELSE IF Near(cmb.centerY, bounds.centerY, threshold)
    THEN Hit(RSub(bounds.centerY, Half(movingElement.height)),
             Guide(ElementGuideId(index, "center-y"), "horizontal", bounds.centerY, CENTER_COLOR))
  ELSE Miss(st.y)

SiblingX_noSideRight(st, movingElement, cmb, bounds, index, threshold) ==
  IF Near(cmb.left, bounds.left, threshold)
    THEN Hit(bounds.left,
             Guide(ElementGuideId(index, "left"), "vertical", bounds.left, EDGE_COLOR))
  ELSE IF Near(cmb.right, bounds.right, threshold)
    THEN Hit(RSub(bounds.right, movingElement.width),
             Guide(ElementGuideId(index, "right"), "vertical", bounds.right, EDGE_COLOR))
  ELSE IF Near(cmb.right, bounds.left, threshold)
    THEN Hit(RSub(bounds.left, movingElement.width),
             Guide(ElementGuideId(index, "side-left"), "vertical", bounds.left, EDGE_COLOR))
  ELSE IF Near(cmb.centerX, bounds.centerX, threshold)
    THEN Hit(RSub(bounds.centerX, Half(movingElement.width)),
             Guide(ElementGuideId(index, "center-x"), "vertical", bounds.centerX, CENTER_COLOR))
  ELSE Miss(st.x)

\* One sibling, X axis: left-left, right-right, left-right, right-left, center
SiblingX(st, movingElement, cmb, bounds, index, threshold) ==
  IF Near(cmb.left, bounds.left, threshold)
    THEN Hit(bounds.left,
             Guide(ElementGuideId(index, "left"), "vertical", bounds.left, EDGE_COLOR))
  ELSE IF Near(cmb.right, bounds.right, threshold)
    THEN Hit(RSub(bounds.right, movingElement.width),
             Guide(ElementGuideId(index, "right"), "vertical", bounds.right, EDGE_COLOR))
  ELSE IF Near(cmb.left, bounds.right, threshold)
    THEN Hit(bounds.right,
             Guide(ElementGuideId(index, "side-right"), "vertical", bounds.right, EDGE_COLOR))
  ELSE IF Near(cmb.right, bounds.left, threshold)
    THEN Hit(RSub(bounds.left, movingElement.width),
             Guide(ElementGuideId(index, "side-left"), "vertical", bounds.left, EDGE_COLOR))
  ELSE IF Near(cmb.centerX, bounds.centerX, threshold)
    THEN Hit(RSub(bounds.centerX, Half(movingElement.width)),
             Guide(ElementGuideId(index, "center-x"), "vertical", bounds.centerX, CENTER_COLOR))
  ELSE Miss(st.x)

\* The body of otherElements.forEach for one sibling: cmb is the moving
\* element at the position snapped so far; the Y chain runs before the X chain
SiblingAt(st, movingElement, cmb, bounds, index, threshold) ==
  PushYX(st, SiblingY(st, movingElement, cmb, bounds, index, threshold),
             SiblingX(st, movingElement, cmb, bounds, index, threshold))

SiblingSnaps(st, movingElement, element, index, threshold) ==
  SiblingAt(st, movingElement, MovingBounds(movingElement, st.x, st.y),
            getElementBounds(element), index, threshold)

otherElements_withHidden(elements, movingElement) ==
  SelectSeq(elements, LAMBDA el : el.id # movingElement.id)

\* elements.filter(el => el.id !== movingElement.id && el.visible)
otherElements(elements, movingElement) ==
  SelectSeq(elements, LAMBDA el : el.id # movingElement.id /\ el.visible)

\* otherElements.forEach((element, index) => ...), index counted from 0
RECURSIVE SiblingLoop(_, _, _, _, _)
SiblingLoop(st, movingElement, others, index, threshold) ==
  IF index >= Len(others) THEN st
  ELSE SiblingLoop(SiblingSnaps(st, movingElement, others[index + 1], index, threshold),
                   movingElement, others, index + 1, threshold)

\* useSnapping(elements, canvasCenter, zoom, enabled, canvasSize): the values
\* one hook instance closes over.  canvasSize is optional: <<>> or <<size>>.
SnapHook(elements, canvasCenter, zoom, enabled, canvasSize) ==
  [elements |-> elements, canvasCenter |-> canvasCenter, zoom |-> zoom,
   enabled |-> enabled, canvasSize |-> canvasSize]

\* After the canvas edge checks (skipped without a canvasSize)
AfterEdges(hook, movingElement, mb, s0, threshold) ==
  IF Len(hook.canvasSize) = 0 THEN s0
  ELSE CanvasEdgeSnaps(s0, movingElement, mb, hook.canvasSize[1], threshold)

\* The stages in program order, from s0 = the candidate with no guides
StagesFrom(hook, movingElement, mb, s0, threshold) ==
  SiblingLoop(
    CanvasCenterSnaps(AfterEdges(hook, movingElement, mb, s0, threshold),
                      movingElement, mb, hook.canvasCenter, threshold),
    movingElement, otherElements(hook.elements, movingElement), 0, threshold)

\* snappedX, snappedY and guides when the sibling loop is done
SnapStages(hook, movingElement, newX, newY) ==
  StagesFrom(hook, movingElement, MovingBounds(movingElement, newX, newY),
             [x |-> newX, y |-> newY, guides |-> <<>>], Threshold(hook.zoom))

SnapResult_always(s3, newX, newY) ==
  [x |-> s3.x, y |-> s3.y, guides |-> s3.guides]

\* return { x: snappedX !== newX ? snappedX : undefined, y: ..., guides }
SnapResult(s3, newX, newY) ==
  [x |-> IF RNe(s3.x, newX) THEN s3.x ELSE Undefined,
   y |-> IF RNe(s3.y, newY) THEN s3.y ELSE Undefined,
   guides |-> s3.guides]

detectSnaps_ignoreFlag(hook, movingElement, newX, newY, snapEnabled) ==
  SnapResult(SnapStages(hook, movingElement, newX, newY), newX, newY)

\* detectSnaps(movingElement, newX, newY, snapEnabled)
detectSnaps(hook, movingElement, newX, newY, snapEnabled) ==
  IF ~snapEnabled THEN [x |-> Undefined, y |-> Undefined, guides |-> <<>>]
  ELSE SnapResult(SnapStages(hook, movingElement, newX, newY), newX, newY)

-----------------------------------------------------------------------------
(* Resize calculator (EnhancedDesignElementComponent.calculateResize)      *)

MIN_SIZE == 10

Handles == {"nw", "ne", "sw", "se", "n", "s", "e", "w"}

\* The result record { newWidth, newHeight, newX, newY }
Out(w, h, x, y) == [newWidth |-> w, newHeight |-> h, newX |-> x, newY |-> y]

Grow_floor100(a, d) == MathMax(I(100), RAdd(a, d))

\* Math.max(10, a + d) and Math.max(10, a - d)
Grow(a, d) == MathMax(I(MIN_SIZE), RAdd(a, d))

Shrink(a, d) == MathMax(I(MIN_SIZE), RSub(a, d))

AnchorX_half(rs, w) == RAdd(rs.elementX, Half(RSub(rs.width, w)))

\* resizeStart.elementX + (resizeStart.width - newWidth): right edge kept
AnchorX(rs, w) == RAdd(rs.elementX, RSub(rs.width, w))

\* resizeStart.elementY + (resizeStart.height - newHeight): bottom edge kept
AnchorY(rs, h) == RAdd(rs.elementY, RSub(rs.height, h))

CentreX_notHalved(rs, w) == RAdd(rs.elementX, RSub(rs.width, w))

\* resizeStart.elementX + (resizeStart.width - newWidth) / 2
CentreX(rs, w) == RAdd(rs.elementX, Half(RSub(rs.width, w)))

\* resizeStart.elementY + (resizeStart.height - newHeight) / 2
CentreY(rs, h) == RAdd(rs.elementY, Half(RSub(rs.height, h)))

\* const aspectRatio = resizeStart.width / resizeStart.height
AspectRatio(rs) == RDiv(rs.width, rs.height)

LockRatio_min(rs, w, h) == MathMin(RDiv(w, rs.width), RDiv(h, rs.height))

\* ratio = Math.max(newWidth / resizeStart.width, newHeight / resizeStart.height)
LockRatio(rs, w, h) == MathMax(RDiv(w, rs.width), RDiv(h, rs.height))

\* newWidth = resizeStart.width * ratio; newHeight = resizeStart.height * ratio
Scaled(rs, ratio) == [w |-> RMul(rs.width, ratio), h |-> RMul(rs.height, ratio)]

ResizeSE_locked(rs, l) == Out(l.w, l.h, rs.elementX, rs.elementY)

ResizeSE(rs, w, h, shiftKey) ==
  IF shiftKey THEN ResizeSE_locked(rs, Scaled(rs, LockRatio(rs, w, h)))
  ELSE Out(w, h, rs.elementX, rs.elementY)

ResizeSW_locked(rs, l) == Out(l.w, l.h, AnchorX(rs, l.w), rs.elementY)

ResizeSW(rs, w, h, shiftKey) ==
  IF shiftKey THEN ResizeSW_locked(rs, Scaled(rs, LockRatio(rs, w, h)))
  ELSE Out(w, h, AnchorX(rs, w), rs.elementY)

ResizeNE_locked(rs, l) == Out(l.w, l.h, rs.elementX, AnchorY(rs, l.h))

ResizeNE(rs, w, h, shiftKey) ==
  IF shiftKey THEN ResizeNE_locked(rs, Scaled(rs, LockRatio(rs, w, h)))
  ELSE Out(w, h, rs.elementX, AnchorY(rs, h))

ResizeNW_locked(rs, l) == Out(l.w, l.h, AnchorX(rs, l.w), AnchorY(rs, l.h))

ResizeNW_fixedOrigin(rs, w, h, shiftKey) == Out(w, h, rs.elementX, rs.elementY)

ResizeNW(rs, w, h, shiftKey) ==
  IF shiftKey THEN ResizeNW_locked(rs, Scaled(rs, LockRatio(rs, w, h)))
  ELSE Out(w, h, AnchorX(rs, w), AnchorY(rs, h))

ResizeN_locked(rs, w, h) == Out(w, h, CentreX(rs, w), AnchorY(rs, h))

ResizeN(rs, h, shiftKey) ==
  IF shiftKey THEN ResizeN_locked(rs, RMul(h, AspectRatio(rs)), h)
  ELSE Out(rs.width, h, rs.elementX, AnchorY(rs, h))

ResizeS_locked(rs, w, h) == Out(w, h, CentreX(rs, w), rs.elementY)

ResizeS(rs, h, shiftKey) ==
  IF shiftKey THEN ResizeS_locked(rs, RMul(h, AspectRatio(rs)), h)
  ELSE Out(rs.width, h, rs.elementX, rs.elementY)

ResizeE_locked(rs, w, h) == Out(w, h, rs.elementX, CentreY(rs, h))

ResizeE(rs, w, shiftKey) ==
  IF shiftKey THEN ResizeE_locked(rs, w, RDiv(w, AspectRatio(rs)))
  ELSE Out(w, rs.height, rs.elementX, rs.elementY)

ResizeW_locked(rs, w, h) == Out(w, h, AnchorX(rs, w), CentreY(rs, h))

ResizeW(rs, w, shiftKey) ==
  IF shiftKey THEN ResizeW_locked(rs, w, RDiv(w, AspectRatio(rs)))
  ELSE Out(w, rs.height, AnchorX(rs, w), rs.elementY)

calculateResize(resizeStart, deltaX, deltaY, handle, shiftKey) ==
  CASE handle = "se" ->
         ResizeSE(resizeStart, Grow(resizeStart.width, deltaX),
                  Grow(resizeStart.height, deltaY), shiftKey)
    [] handle = "sw" ->
         ResizeSW(resizeStart, Shrink(resizeStart.width, deltaX),
                  Grow(resizeStart.height, deltaY), shiftKey)
    [] handle = "ne" ->
         ResizeNE(resizeStart, Grow(resizeStart.width, deltaX),
                  Shrink(resizeStart.height, deltaY), shiftKey)
    [] handle = "nw" ->
         ResizeNW(resizeStart, Shrink(resizeStart.width, deltaX),
                  Shrink(resizeStart.height, deltaY), shiftKey)
    [] handle = "n" -> ResizeN(resizeStart, Shrink(resizeStart.height, deltaY), shiftKey)
    [] handle = "s" -> ResizeS(resizeStart, Grow(resizeStart.height, deltaY), shiftKey)
    [] handle = "e" -> ResizeE(resizeStart, Grow(resizeStart.width, deltaX), shiftKey)
    [] handle = "w" -> ResizeW(resizeStart, Shrink(resizeStart.width, deltaX), shiftKey)
    [] OTHER -> Out(resizeStart.width, resizeStart.height,
                    resizeStart.elementX, resizeStart.elementY)

-----------------------------------------------------------------------------
(* Grid snapping (hooks/useGridSystem, handed to Canvas as onGridSnap)     *)

GRID_SIZE == 20

\* Math.round(a): the nearest integer, halves upwards
MathRound(a) == I((2 * a[1] + a[2]) \div (2 * a[2]))

\* gridCalculations.snapToGrid: the nearest grid intersection
snapToGrid(x, y) ==
  [x |-> RMul(MathRound(RDiv(x, I(GRID_SIZE))), I(GRID_SIZE)),
   y |-> RMul(MathRound(RDiv(y, I(GRID_SIZE))), I(GRID_SIZE))]


-----------------------------------------------------------------------------
(* The editor: element list, per-element component state, snap hooks       *)

VARIABLES
  elements,          \* currentState.elements: the element list, in list order
  selectedElements,  \* currentState.selectedElements
  comp,              \* per element id: the component's useState values and
                     \* the activeGuides of its own useSnapping instance
  canvasGuides,      \* activeGuides of the Canvas's useSnapping instance
  zoom,              \* UIDesignTool zoom
  snapEnabled,       \* UIDesignTool snapEnabled (shape snapping)
  gridSnapEnabled,   \* gridSettings.snapEnabled
  last,              \* history: what the last handler run computed
  nEvents,           \* history: number of handler runs so far
  call               \* the last direct call of a pure function, with its result

vars == <<elements, selectedElements, comp, canvasGuides, zoom, snapEnabled,
          gridSnapEnabled, last, nEvents, call>>

uiVars == <<elements, selectedElements, comp, canvasGuides, zoom, snapEnabled,
            gridSnapEnabled, last, nEvents>>

MaxEvents == 4

Element(id, x, y, width, height, visible, locked) ==
  [id |-> id, x |-> I(x), y |-> I(y), width |-> I(width), height |-> I(height),
   visible |-> visible, locked |-> locked]

ElementIds(els) == {els[i].id : i \in 1..Len(els)}

ElementById(els, id) == els[CHOOSE i \in 1..Len(els) : els[i].id = id]

NoPos == [x |-> I(0), y |-> I(0)]

NoSnap == [x |-> Undefined, y |-> Undefined, guides |-> <<>>]

NoCall == [fn |-> "none"]

\* useState initial values of EnhancedDesignElementComponent, and the empty
\* activeGuides of its useSnapping instance
CompInit ==
  [isDragging |-> FALSE, isResizing |-> "null", isDuplicating |-> FALSE,
   dragStart |-> [x |-> I(0), y |-> I(0), elementX |-> I(0), elementY |-> I(0)],
   resizeStart |-> [x |-> I(0), y |-> I(0), width |-> I(0), height |-> I(0),
                    elementX |-> I(0), elementY |-> I(0)],
   activeGuides |-> <<>>]

\* { ...element, ...updates } for the geometry fields updates may carry
Merge(element, updates) ==
  [id      |-> element.id,
   x       |-> IF "x" \in DOMAIN updates THEN updates.x ELSE element.x,
   y       |-> IF "y" \in DOMAIN updates THEN updates.y ELSE element.y,
   width   |-> IF "width" \in DOMAIN updates THEN updates.width ELSE element.width,
   height  |-> IF "height" \in DOMAIN updates THEN updates.height ELSE element.height,
   visible |-> element.visible,
   locked  |-> element.locked]

\* updateElement(id, updates): the fields of updates replace the element's
RECURSIVE updateElement(_, _, _)
updateElement(els, id, updates) ==
  IF els = <<>> THEN <<>>
  ELSE <<IF Head(els).id = id THEN Merge(Head(els), updates) ELSE Head(els)>>
       \o updateElement(Tail(els), id, updates)

\* Canvas: onSelect of a top-level element
onSelect(selected, id, ctrlKey) ==
  IF ctrlKey
  THEN IF id \in selected THEN selected \ {id} ELSE selected \cup {id}
  ELSE {id}

\* Canvas: onUpdate of a top-level element (grid snap, then clamp with the
\* element's current width and height); returns what updateElement receives
CanvasOnUpdate(element, updates, gridSnap) ==
  LET snapped == IF gridSnap THEN snapToGrid(updates.x, updates.y)
                 ELSE [x |-> updates.x, y |-> updates.y]
      clamped == CanvasClampToCanvas(snapped.x, snapped.y,
                                     element.width, element.height)
  IN  IF "width" \in DOMAIN updates
      THEN [width |-> updates.width, height |-> updates.height,
            x |-> clamped.x, y |-> clamped.y]
      ELSE [x |-> clamped.x, y |-> clamped.y]

\* The hook instance of the component of one element
ElementHook(els, z, enabled) ==
  SnapHook(els, CanvasCenter, z, enabled, <<CanvasSize>>)

\* if (snapResult.x !== undefined) finalX = snapResult.x; likewise y;
\* showGuides(snapResult.guides); onUpdate({ x: finalX, y: finalY })
DragFinal(clamped, snapResult) ==
  [clamped |-> clamped, snap |-> snapResult,
   updates |-> [x |-> IF snapResult.x # Undefined THEN snapResult.x ELSE clamped.x,
                y |-> IF snapResult.y # Undefined THEN snapResult.y ELSE clamped.y]]

\* const snapResult = detectSnaps(element, finalX, finalY, snapEnabled).
\* Canvas passes no onGridSnap to the component: finalX, finalY = clamped.
DragSnap(els, element, z, enabled, clamped) ==
  DragFinal(clamped, detectSnaps(ElementHook(els, z, enabled), element,
                                 clamped.x, clamped.y, enabled))

\* (e.clientX - start.x) / zoom
Delta(client, start, z) == RDiv(RSub(I(client), start), z)

\* handleGlobalMouseMove, drag branch: everything up to onUpdate
DragMove(els, c, element, z, enabled, clientX, clientY) ==
  DragSnap(els, element, z, enabled,
           clampToCanvas(CanvasSize,
                         RAdd(c.dragStart.elementX, Delta(clientX, c.dragStart.x, z)),
                         RAdd(c.dragStart.elementY, Delta(clientY, c.dragStart.y, z)),
                         element.width, element.height))

\* maxWidth = canvasSize.width - newX; clampedWidth = Math.min(finalWidth,
\* maxWidth); likewise height; onUpdate({ width, height, x: newX, y: newY }).
\* Canvas passes no onGridSnapSize: finalWidth, finalHeight = the calculated.
ResizeClamp(r) ==
  [calc |-> r,
   updates |-> [width  |-> MathMin(r.newWidth, RSub(CanvasSize.width, r.newX)),
                height |-> MathMin(r.newHeight, RSub(CanvasSize.height, r.newY)),
                x |-> r.newX, y |-> r.newY]]

\* handleGlobalMouseMove, resize branch: everything up to onUpdate
ResizeMove(c, z, clientX, clientY, shiftKey) ==
  ResizeClamp(calculateResize(c.resizeStart,
                              Delta(clientX, c.resizeStart.x, z),
                              Delta(clientY, c.resizeStart.y, z),
                              c.isResizing, shiftKey))

-----------------------------------------------------------------------------
(* Events                                                                  *)

Active(c) == c.isDragging \/ c.isResizing # "null"

MouseDown_ignoreLock(id, clientX, clientY, ctrlKey, altKey) ==
  LET element == ElementById(elements, id)
      c == comp[id]
  IN  /\ element.visible
      /\ selectedElements' = onSelect(selectedElements, id, ctrlKey)
      /\ comp' = [comp EXCEPT ![id] =
           [c EXCEPT !.isDuplicating = IF altKey THEN TRUE ELSE @,
                     !.isDragging = TRUE,
                     !.dragStart = [x |-> I(clientX), y |-> I(clientY),
                                    elementX |-> element.x,
                                    elementY |-> element.y]]]
      /\ last' = [kind |-> "down", id |-> id]
      /\ nEvents' = nEvents + 1
      /\ UNCHANGED <<elements, canvasGuides, zoom, snapEnabled, gridSnapEnabled, call>>

\* handleMouseDown of the component of element id
MouseDown(id, clientX, clientY, ctrlKey, altKey) ==
  LET element == ElementById(elements, id)
      c == comp[id]
  IN  /\ element.visible
      /\ IF element.locked
         THEN UNCHANGED <<comp, selectedElements>>
         ELSE /\ selectedElements' = onSelect(selectedElements, id, ctrlKey)
              /\ comp' = [comp EXCEPT ![id] =
                   [c EXCEPT !.isDuplicating = IF altKey THEN TRUE ELSE @,
                             !.isDragging = TRUE,
                             !.dragStart = [x |-> I(clientX), y |-> I(clientY),
                                            elementX |-> element.x,
                                            elementY |-> element.y]]]
      /\ last' = [kind |-> "down", id |-> id]
      /\ nEvents' = nEvents + 1
      /\ UNCHANGED <<elements, canvasGuides, zoom, snapEnabled, gridSnapEnabled, call>>

\* handleResizeStart of the component of element id; the handles are
\* rendered for a selected, unlocked element
ResizeStart(id, handle, clientX, clientY) ==
  LET element == ElementById(elements, id)
      c == comp[id]
  IN  /\ element.visible
      /\ id \in selectedElements
      /\ ~element.locked
      /\ comp' = [comp EXCEPT ![id] =
           [c EXCEPT !.isResizing = handle,
                     !.resizeStart = [x |-> I(clientX), y |-> I(clientY),
                                      width |-> element.width,
                                      height |-> element.height,
                                      elementX |-> element.x,
                                      elementY |-> element.y]]]
      /\ last' = [kind |-> "resizeStart", id |-> id]
      /\ nEvents' = nEvents + 1
      /\ UNCHANGED <<elements, selectedElements, canvasGuides, zoom, snapEnabled,
                     gridSnapEnabled, call>>

\* The state after handleGlobalMouseMove: m is what the branches computed,
\* sent what the Canvas's onUpdate handed to updateElement
MoveCommit(id, element, c, m, sent, shiftKey) ==
  /\ elements' = updateElement(elements, id, sent)
  /\ comp' = [comp EXCEPT ![id] =
       [c EXCEPT !.activeGuides = IF c.isDragging THEN m.snap.guides ELSE @,
                 !.isDuplicating = IF c.isDragging THEN FALSE ELSE @]]
  /\ last' = [kind     |-> IF c.isResizing # "null" THEN "resize" ELSE "drag",
              id       |-> id,
              dragging |-> c.isDragging,
              before   |-> element,
              clamped  |-> m.clamped,
              snap     |-> m.snap,
              handle   |-> c.isResizing,
              shiftKey |-> c.isResizing # "null" /\ shiftKey,
              start    |-> c.resizeStart,
              calc     |-> m.calc,
              updates  |-> m.updates,
              sent     |-> sent]
  /\ nEvents' = nEvents + 1
  /\ UNCHANGED <<selectedElements, canvasGuides, zoom, snapEnabled,
                 gridSnapEnabled, call>>

NoCalc == Out(I(0), I(0), I(0), I(0))

\* What the two branches of one handler run leave behind: with both flags
\* set both run on the same rendered element, and the resize update, which
\* carries all four geometry fields, is the one left standing.
Branches(c, d, r) ==
  [clamped |-> IF c.isDragging THEN d.clamped ELSE NoPos,
   snap    |-> IF c.isDragging THEN d.snap ELSE NoSnap,
   calc    |-> IF c.isResizing # "null" THEN r.calc ELSE NoCalc,
   updates |-> IF c.isResizing # "null" THEN r.updates ELSE d.updates]

MoveBranches(id, element, c, m, shiftKey) ==
  MoveCommit(id, element, c, m,
             CanvasOnUpdate(element, m.updates, gridSnapEnabled), shiftKey)

MoveOf(id, element, c, clientX, clientY, shiftKey) ==
  MoveBranches(id, element, c,
               Branches(c, DragMove(elements, c, element, zoom, snapEnabled,
                                    clientX, clientY),
                           ResizeMove(c, zoom, clientX, clientY, shiftKey)),
               shiftKey)

\* handleGlobalMouseMove of the component of element id (registered on the
\* document while isDragging || isResizing)
MouseMove(id, clientX, clientY, shiftKey) ==
  /\ Active(comp[id])
  /\ MoveOf(id, ElementById(elements, id), comp[id], clientX, clientY, shiftKey)

MouseUp_keepResizing(id) ==
  LET c == comp[id]
  IN  /\ Active(c)
      /\ comp' = [comp EXCEPT ![id] =
           [c EXCEPT !.isDragging = FALSE, !.isDuplicating = FALSE,
                     !.activeGuides = <<>>]]
      /\ last' = [kind |-> "up", id |-> id, guides |-> c.activeGuides]
      /\ nEvents' = nEvents + 1
      /\ UNCHANGED <<elements, selectedElements, canvasGuides, zoom, snapEnabled,
                     gridSnapEnabled, call>>

MouseUp_keepGuides(id) ==
  LET c == comp[id]
  IN  /\ Active(c)
      /\ comp' = [comp EXCEPT ![id] =
           [c EXCEPT !.isDragging = FALSE, !.isResizing = "null",
                     !.isDuplicating = FALSE]]
      /\ last' = [kind |-> "up", id |-> id, guides |-> c.activeGuides]
      /\ nEvents' = nEvents + 1
      /\ UNCHANGED <<elements, selectedElements, canvasGuides, zoom, snapEnabled,
                     gridSnapEnabled, call>>

\* handleGlobalMouseUp of the component of element id; last.guides are the
\* guides that were showing when the pointer went up
MouseUp(id) ==
  LET c == comp[id]
  IN  /\ Active(c)
      /\ comp' = [comp EXCEPT ![id] =
           [c EXCEPT !.isDragging = FALSE, !.isResizing = "null",
                     !.isDuplicating = FALSE, !.activeGuides = <<>>]]
      /\ last' = [kind |-> "up", id |-> id, guides |-> c.activeGuides]
      /\ nEvents' = nEvents + 1
      /\ UNCHANGED <<elements, selectedElements, canvasGuides, zoom, snapEnabled,
                     gridSnapEnabled, call>>

\* The scene the editor starts from: every element inside the canvas.
\* "h" is hidden and sits where "a" would snap to it; "k" is locked.
InitElements ==
  <<Element("a", 100, 100, 50, 50, TRUE, FALSE),
    Element("b", 0, 100, 100, 50, TRUE, FALSE),
    Element("h", 100, 154, 50, 50, FALSE, FALSE),
    Element("k", 200, 300, 60, 40, TRUE, TRUE)>>

Zooms == {I(1), I(2)}

EditorInit(els) ==
  /\ elements = els
  /\ selectedElements = {}
  /\ comp = [id \in ElementIds(els) |-> CompInit]
  /\ canvasGuides = <<>>
  /\ last = [kind |-> "init", id |-> "none"]
  /\ nEvents = 0
  /\ call = NoCall

\* pointer positions (clientX, clientY) of the whole-editor specification
DownPoints == {<<0, 0>>}

MovePoints == {<<3, 0>>, <<-97, 4>>, <<4000, 4000>>, <<-4000, -95>>}

Init ==
  /\ EditorInit(InitElements)
  /\ zoom = I(1)
  /\ snapEnabled \in BOOLEAN
  /\ gridSnapEnabled = FALSE

Next ==
  \/ /\ nEvents < MaxEvents
     /\ \E id \in ElementIds(elements), p \in DownPoints, k \in BOOLEAN :
          MouseDown(id, p[1], p[2], k, FALSE)
  \/ /\ nEvents < MaxEvents
     /\ \E id \in ElementIds(elements), h \in Handles, p \in DownPoints :
          ResizeStart(id, h, p[1], p[2])
  \/ /\ nEvents < MaxEvents
     /\ \E id \in ElementIds(elements), p \in MovePoints, k \in BOOLEAN :
          MouseMove(id, p[1], p[2], k)
  \/ /\ nEvents < MaxEvents
     /\ \E id \in ElementIds(elements) : MouseUp(id)

Spec == Init /\ [][Next]_vars

-----------------------------------------------------------------------------
(* Drag gestures on one element, over a wider range of pointer positions   *)

MaxDragEvents == 4

\* "a" as a small element and as one that nearly fills the canvas
DragBoxes == {<<100, 100, 50, 50>>, <<40, 60, 3800, 2100>>}

DragScene(box) ==
  <<Element("a", box[1], box[2], box[3], box[4], TRUE, FALSE),
    Element("b", 0, 100, 100, 50, TRUE, FALSE),
    Element("h", 100, 154, 50, 50, FALSE, FALSE)>>

DragDownPoints == {<<0, 0>>}

\* to the sibling's right edge, to the canvas corner region, far outside the
\* canvas on both sides, off the grid, and next to the canvas center
DragPoints ==
  {<<3, 0>>, <<-97, -95>>, <<4000, 4000>>, <<-4000, -4000>>, <<7, 13>>, <<1797, 957>>}

DragInit ==
  /\ \E box \in DragBoxes : EditorInit(DragScene(box))
  /\ zoom \in Zooms
  /\ snapEnabled \in BOOLEAN
  /\ gridSnapEnabled \in BOOLEAN

DragNext ==
  \/ /\ nEvents < MaxDragEvents
     /\ \E p \in DragDownPoints, alt \in BOOLEAN : MouseDown("a", p[1], p[2], FALSE, alt)
  \/ /\ nEvents < MaxDragEvents
     /\ \E p \in DragPoints : MouseMove("a", p[1], p[2], FALSE)
  \/ /\ nEvents < MaxDragEvents
     /\ MouseUp("a")

DragSpec == DragInit /\ [][DragNext]_vars

-----------------------------------------------------------------------------
(* Resize gestures on one selected element                                 *)

MaxResizeEvents == 3

\* "a" small, nearly filling the canvas, and in the bottom-right corner
ResizeBoxes == {<<100, 100, 50, 50>>, <<40, 60, 3800, 2100>>, <<3740, 2060, 100, 100>>}

ResizePoints == {<<50, 20>>, <<-20, -10>>, <<-70, -80>>, <<4000, 4000>>}

\* The editor after "a" was clicked: selected, its handles rendered.
ResizeInit ==
  /\ \E box \in ResizeBoxes : elements = DragScene(box)
  /\ selectedElements = {"a"}
  /\ comp = [id \in {"a", "b", "h"} |-> CompInit]
  /\ canvasGuides = <<>>
  /\ last = [kind |-> "init", id |-> "none"]
  /\ nEvents = 0
  /\ call = NoCall
  /\ zoom \in Zooms
  /\ snapEnabled = TRUE
  /\ gridSnapEnabled \in BOOLEAN

ResizeNext ==
  \/ /\ nEvents < MaxResizeEvents
     /\ \E h \in Handles, p \in DragDownPoints : ResizeStart("a", h, p[1], p[2])
  \/ /\ nEvents < MaxResizeEvents
     /\ \E p \in ResizePoints, k \in BOOLEAN : MouseMove("a", p[1], p[2], k)
  \/ /\ nEvents < MaxResizeEvents
     /\ MouseUp("a")

ResizeSpec == ResizeInit /\ [][ResizeNext]_vars

-----------------------------------------------------------------------------
(* Successive gestures on one element: drag, release, resize, release      *)

MaxSessionEvents == 5

SessionDownPoints == {<<0, 0>>, <<10, 10>>}

SessionMovePoints == {<<3, 0>>, <<-97, 4>>, <<60, 30>>}

SessionHandles == {"se", "w"}

SessionInit ==
  /\ EditorInit(DragScene(<<100, 100, 50, 50>>))
  /\ zoom = I(1)
  /\ snapEnabled = TRUE
  /\ gridSnapEnabled = FALSE

SessionNext ==
  \/ /\ nEvents < MaxSessionEvents
     /\ \E p \in SessionDownPoints : MouseDown("a", p[1], p[2], FALSE, FALSE)
  \/ /\ nEvents < MaxSessionEvents
     /\ \E h \in SessionHandles, p \in SessionDownPoints :
          ResizeStart("a", h, p[1], p[2])
  \/ /\ nEvents < MaxSessionEvents
     /\ \E p \in SessionMovePoints, k \in BOOLEAN : MouseMove("a", p[1], p[2], k)
  \/ /\ nEvents < MaxSessionEvents
     /\ MouseUp("a")

SessionSpec == SessionInit /\ [][SessionNext]_vars

-----------------------------------------------------------------------------
(* Keyboard nudging of the selected elements                               *)

\* handleNudge: switch (direction) { updates.y = element.y - amount; ... }
NudgeUpdates(element, direction, amount) ==
  CASE direction = "up"    -> [y |-> RSub(element.y, I(amount))]
    [] direction = "down"  -> [y |-> RAdd(element.y, I(amount))]
    [] direction = "left"  -> [x |-> RSub(element.x, I(amount))]
    [] direction = "right" -> [x |-> RAdd(element.x, I(amount))]

\* handleNudge: the list after selectedElements.forEach(id => newElements =
\* updateElementInGroup(newElements, id, updates)); ids not in the list are
\* skipped (findIndex === -1)
handleNudge(els, selected, direction, amount) ==
  [i \in 1..Len(els) |->
     IF els[i].id \in selected
       THEN Merge(els[i], NudgeUpdates(els[i], direction, amount))
     ELSE els[i]]

\* handleKeyDown, arrow keys: nudgeAmount = shiftKey ? 10 : 1
nudgeAmount(shiftKey) == IF shiftKey THEN 10 ELSE 1

Directions == {"up", "down", "left", "right"}

\* handleKeyDown with an arrow key while elements are selected, then
\* handleNudge and updateCanvas(newElements)
Nudge(direction, shiftKey) ==
  /\ selectedElements # {}
  /\ elements' = handleNudge(elements, selectedElements, direction,
                             nudgeAmount(shiftKey))
  /\ last' = [kind |-> "nudge", id |-> "none", direction |-> direction,
              amount |-> nudgeAmount(shiftKey), before |-> elements]
  /\ nEvents' = nEvents + 1
  /\ UNCHANGED <<selectedElements, comp, canvasGuides, zoom, snapEnabled,
                 gridSnapEnabled, call>>

MaxNudgeEvents == 4

\* every element inside the canvas: "a" in the top-left corner, "b" in the
\* bottom-right corner, "c" away from the edges
NudgeScene ==
  <<Element("a", 0, 0, 50, 50, TRUE, FALSE),
    Element("b", 3790, 2110, 50, 50, TRUE, FALSE),
    Element("c", 100, 100, 50, 50, TRUE, FALSE)>>

\* The editor after one or more elements were selected.
NudgeInit ==
  /\ EditorInit(NudgeScene)
  /\ zoom = I(1)
  /\ snapEnabled = TRUE
  /\ gridSnapEnabled = FALSE

NudgeNext ==
  \/ /\ nEvents < MaxNudgeEvents
     /\ \E id \in ElementIds(elements), k \in BOOLEAN : MouseDown(id, 0, 0, k, FALSE)
  \/ /\ nEvents < MaxNudgeEvents
     /\ \E id \in ElementIds(elements) : MouseUp(id)
  \/ /\ nEvents < MaxNudgeEvents
     /\ \E d \in Directions, k \in BOOLEAN : Nudge(d, k)

NudgeSpec == NudgeInit /\ [][NudgeNext]_vars

-----------------------------------------------------------------------------
(* Repeated resize gestures on the element that nearly fills the canvas    *)

MaxShrinkEvents == 8

ShrinkHandles == {"n", "e"}

\* pointer position and shiftKey: 80 up and 70 left; 2160 down; back at the
\* pointer-down position, with and without the aspect lock
ShrinkMoves ==
  {<<-70, -80, FALSE>>, <<0, 2160, FALSE>>, <<0, 0, FALSE>>, <<0, 0, TRUE>>}

ShrinkInit ==
  /\ elements = DragScene(<<40, 60, 3800, 2100>>)
  /\ selectedElements = {"a"}
  /\ comp = [id \in {"a", "b", "h"} |-> CompInit]
  /\ canvasGuides = <<>>
  /\ last = [kind |-> "init", id |-> "none"]
  /\ nEvents = 0
  /\ call = NoCall
  /\ zoom = I(1)
  /\ snapEnabled = TRUE
  /\ gridSnapEnabled = FALSE

ShrinkNext ==
  \/ /\ nEvents < MaxShrinkEvents
     /\ ~Active(comp["a"])
     /\ \E h \in ShrinkHandles : ResizeStart("a", h, 0, 0)
  \/ /\ nEvents < MaxShrinkEvents
     /\ \E p \in ShrinkMoves : MouseMove("a", p[1], p[2], p[3])
  \/ /\ nEvents < MaxShrinkEvents
     /\ MouseUp("a")

ShrinkSpec == ShrinkInit /\ [][ShrinkNext]_vars

-----------------------------------------------------------------------------
(* Direct calls of the pure functions, inputs drawn from bounded sets      *)

R(n, d) == Norm(n, d)

ClampXs == {I(-100000), I(-1), I(0), R(7, 2), I(40), I(3790), I(3840), I(100000)}

ClampYs == {I(-100000), I(-1), I(0), R(7, 2), I(60), I(2110), I(2160), I(100000)}

ClampWidths == {I(10), I(50), I(3840), I(3841), I(5000)}

ClampHeights == {I(10), I(50), I(2160), I(2161), I(5000)}

CallClamp(x, y, width, height) ==
  /\ call.fn = "none"
  /\ call' = [fn |-> "clampToCanvas", x |-> x, y |-> y,
              width |-> width, height |-> height,
              result |-> clampToCanvas(CanvasSize, x, y, width, height),
              canvasResult |-> CanvasClampToCanvas(x, y, width, height)]
  /\ UNCHANGED uiVars

\* sibling lists for detectSnaps: each holds the moving element "a" itself
SnapScenes ==
  {<<Element("a", 100, 100, 50, 50, TRUE, FALSE),
     Element("b", 0, 100, 100, 50, TRUE, FALSE),
     Element("h", 100, 154, 50, 50, FALSE, FALSE)>>,
   <<Element("b", 300, 400, 80, 60, TRUE, FALSE),
     Element("a", 100, 100, 50, 50, TRUE, FALSE),
     Element("c", 306, 520, 80, 40, TRUE, FALSE),
     Element("h", 100, 150, 50, 50, FALSE, FALSE)>>}

\* width and height of the moving element
SnapSizes == {<<50, 50>>, <<5, 5>>}

SnapXs == {-3, 0, 2, 4, 7, 8, 9, 96, 103, 108, 250, 303, 383, 1897}

SnapYs == {0, 3, 8, 55, 94, 100, 107, 146, 343, 350, 358, 1057}

SnapZooms == {I(1), I(2), I(4)}

CallDetectSnaps(scene, size, z, enabled, newX, newY) ==
  LET hook == SnapHook(scene, CanvasCenter, z, enabled, <<CanvasSize>>)
      a == ElementById(scene, "a")
      movingElement == [a EXCEPT !.width = I(size[1]), !.height = I(size[2])]
      els == updateElement(scene, "a", [width |-> I(size[1]), height |-> I(size[2])])
      h == [hook EXCEPT !.elements = els]
  IN  /\ call.fn = "none"
      /\ call' = [fn |-> "detectSnaps", hook |-> h, movingElement |-> movingElement,
                  newX |-> I(newX), newY |-> I(newY), snapEnabled |-> enabled,
                  result |-> detectSnaps(h, movingElement, I(newX), I(newY), enabled)]
      /\ UNCHANGED uiVars

FnInit ==
  /\ EditorInit(InitElements)
  /\ zoom = I(1)
  /\ snapEnabled = TRUE
  /\ gridSnapEnabled = FALSE

FnNext ==
  \/ \E x \in ClampXs, y \in ClampYs, w \in ClampWidths, h \in ClampHeights :
       CallClamp(x, y, w, h)
  \/ \E scene \in SnapScenes, size \in SnapSizes, z \in SnapZooms, e \in BOOLEAN,
        x \in SnapXs, y \in SnapYs :
       CallDetectSnaps(scene, size, z, e, x, y)

FnSpec == FnInit /\ [][FnNext]_vars

-----------------------------------------------------------------------------
(* Direct calls of detectSnaps: an element nearly as large as the canvas,  *)
(* and siblings whose left edges lie 6 apart                               *)

\* "a" alone; "a" with two siblings; "a" with three siblings in a row
AlignScenes ==
  {<<Element("a", 0, 0, 50, 50, TRUE, FALSE)>>,
   <<Element("a", 100, 100, 50, 50, TRUE, FALSE),
     Element("b", 300, 400, 80, 60, TRUE, FALSE),
     Element("c", 306, 520, 80, 40, TRUE, FALSE)>>,
   <<Element("b", 300, 400, 80, 60, TRUE, FALSE),
     Element("c", 306, 520, 80, 40, TRUE, FALSE),
     Element("a", 100, 100, 50, 50, TRUE, FALSE),
     Element("d", 312, 640, 80, 40, TRUE, FALSE)>>}

AlignSizes == {<<50, 50>>, <<3830, 2150>>}

AlignXs == {3, 5, 293, 300, 303, 500}

AlignYs == {3, 5, 393, 400, 403, 700}

AlignZooms == {I(1), I(2)}

AlignInit == FnInit

AlignNext ==
  \E scene \in AlignScenes, size \in AlignSizes, z \in AlignZooms, e \in BOOLEAN, x \in AlignXs, y \in AlignYs : CallDetectSnaps(scene, size, z, e, x, y)

AlignSpec == AlignInit /\ [][AlignNext]_vars

-----------------------------------------------------------------------------
(* Direct calls of calculateResize                                         *)

\* A resizeStart snapshot of an element at (elementX, elementY), pointer-down
\* at client (0, 0)
Snapshot(elementX, elementY, width, height) ==
  [x |-> I(0), y |-> I(0), width |-> width, height |-> height,
   elementX |-> I(elementX), elementY |-> I(elementY)]

\* square, wide, tall, at the minimum size, and (last) the 10 x 2 element that
\* an aspect-locked edge resize of a 100 x 20 element leaves behind
Snapshots ==
  {Snapshot(0, 0, I(100), I(100)), Snapshot(100, 100, I(100), I(100)),
   Snapshot(100, 100, I(100), I(20)), Snapshot(100, 100, I(30), I(90)),
   Snapshot(3740, 2060, I(10), I(10)), Snapshot(40, 60, I(10), I(2))}

DeltaXs == {I(0), I(50), I(-20), I(-95), R(7, 2), I(4000), I(-4000)}

DeltaYs == {I(0), I(20), I(-10), I(-95), I(4000)}

CallResize(resizeStart, deltaX, deltaY, handle, shiftKey) ==
  /\ call.fn = "none"
  /\ call' = [fn |-> "calculateResize", resizeStart |-> resizeStart,
              deltaX |-> deltaX, deltaY |-> deltaY, handle |-> handle,
              shiftKey |-> shiftKey,
              result |-> calculateResize(resizeStart, deltaX, deltaY, handle, shiftKey)]
  /\ UNCHANGED uiVars

CalcInit == FnInit

CalcNext ==
  \E rs \in Snapshots, dx \in DeltaXs, dy \in DeltaYs, h \in Handles, k \in BOOLEAN :
     CallResize(rs, dx, dy, h, k)

CalcSpec == CalcInit /\ [][CalcNext]_vars

-----------------------------------------------------------------------------
(* Properties                                                              *)

\* 0 <= x, 0 <= y, x + width <= 3840, y + height <= 2160
InCanvas(e) ==
  /\ RLe(I(0), e.x)
  /\ RLe(I(0), e.y)
  /\ RLe(RAdd(e.x, e.width), I(CANVAS_WIDTH))
  /\ RLe(RAdd(e.y, e.height), I(CANVAS_HEIGHT))

FitsCanvas(e) ==
  /\ RLe(e.width, I(CANVAS_WIDTH))
  /\ RLe(e.height, I(CANVAS_HEIGHT))

\* the last handler run was a pointer-move of a drag (no resize in progress)
DragCommitted == last.kind = "drag"

\* C1: after every drag pointer-move on an element whose width and height do
\* not exceed the canvas, the position the Canvas update callback commits
\* (what updateElement receives, and so the element's new position) satisfies
\* 0 <= x, 0 <= y, x + width <= 3840 and y + height <= 2160, whatever canvas,
\* sibling or grid snap took part in the move.
C1_DragCommitInsideCanvas ==
  (DragCommitted /\ FitsCanvas(last.before)) =>
     /\ InCanvas([x |-> last.sent.x, y |-> last.sent.y,
                  width |-> last.before.width, height |-> last.before.height])
     /\ DOMAIN last.sent = {"x", "y"}
     /\ InCanvas(ElementById(elements, last.id))
     /\ ElementById(elements, last.id).x = last.sent.x
     /\ ElementById(elements, last.id).y = last.sent.y
     /\ ElementById(elements, last.id).width = last.before.width
     /\ ElementById(elements, last.id).height = last.before.height

\* C1 witness: a drag move with grid snapping on in which snap guides were
\* produced and the grid-snapped position lay outside the canvas, so that the
\* Canvas clamp is what brought the commit back inside.
C1_Witness ==
  /\ DragCommitted
  /\ FitsCanvas(last.before)
  /\ gridSnapEnabled
  /\ last.snap.guides # <<>>
  /\ snapToGrid(last.updates.x, last.updates.y).x # last.sent.x
  /\ ~RLe(RAdd(snapToGrid(last.updates.x, last.updates.y).x, last.before.width),
          I(CANVAS_WIDTH))

\* the element of a resize gesture lay inside the canvas at pointer-down
StartInside(rs) ==
  InCanvas([x |-> rs.elementX, y |-> rs.elementY,
            width |-> rs.width, height |-> rs.height])

\* C2 (as stated): after every resize pointer-move on an element that lay
\* inside the canvas at pointer-down, the committed x, y, width and height
\* satisfy 0 <= x, 0 <= y, x + width <= 3840 and y + height <= 2160.
C2_ResizeCommitInsideCanvas ==
  (last.kind = "resize" /\ ~last.dragging /\ StartInside(last.start)) =>
     InCanvas(last.sent)

\* the clamp call's x (y) already lies in [0, canvas - size]
XInRange == RLe(I(0), call.x) /\ RLe(call.x, RSub(I(CANVAS_WIDTH), call.width))

YInRange == RLe(I(0), call.y) /\ RLe(call.y, RSub(I(CANVAS_HEIGHT), call.height))

ClampCalled == call.fn = "clampToCanvas"

\* r is inside the clamp range of the call, and is the input where that was
ClampRangeOf(r) ==
  /\ RLe(I(0), r.x) /\ RLe(r.x, RSub(I(CANVAS_WIDTH), call.width))
  /\ RLe(I(0), r.y) /\ RLe(r.y, RSub(I(CANVAS_HEIGHT), call.height))
  /\ XInRange => r.x = call.x
  /\ YInRange => r.y = call.y

\* C3: clampToCanvas (both copies), for every x and y and every width <=
\* canvasWidth and height <= canvasHeight, returns x in [0, canvasWidth -
\* width] and y in [0, canvasHeight - height], and returns an input that is
\* already inside the range unchanged.
C3_ClampRange ==
  (ClampCalled /\ RLe(call.width, I(CANVAS_WIDTH))
               /\ RLe(call.height, I(CANVAS_HEIGHT))) =>
     /\ ClampRangeOf(call.result)
     /\ ClampRangeOf(call.canvasResult)

\* C3 witness: a far-right x is brought to canvasWidth - width while a
\* fractional y inside the range comes back unchanged
C3_Witness ==
  /\ ClampCalled
  /\ call.width = I(50) /\ call.height = I(50)
  /\ call.x = I(100000) /\ call.result.x = I(3790)
  /\ call.y = R(7, 2) /\ call.result.y = R(7, 2)

\* C4: clampToCanvas (both copies) returns x = 0 for every input x when the
\* width exceeds canvasWidth, and y = 0 for every input y when the height
\* exceeds canvasHeight.
C4_ClampOversize ==
  ClampCalled =>
     /\ RLt(I(CANVAS_WIDTH), call.width) =>
          call.result.x = I(0) /\ call.canvasResult.x = I(0)
     /\ RLt(I(CANVAS_HEIGHT), call.height) =>
          call.result.y = I(0) /\ call.canvasResult.y = I(0)

\* C4 witness: an element one unit wider than the canvas, asked to go to a
\* positive x, and one taller than the canvas asked to go to a negative y
C4_Witness ==
  /\ ClampCalled
  /\ call.width = I(3841) /\ call.x = I(40) /\ call.result.x = I(0)
  /\ call.height = I(5000) /\ call.y = I(-1) /\ call.result.y = I(0)

DetectCalled == call.fn = "detectSnaps"

\* the position detectSnaps leaves the moving element at: the corrected
\* coordinate where one is returned, else the candidate
FinalX == IF call.result.x # Undefined THEN call.result.x ELSE call.newX

FinalY == IF call.result.y # Undefined THEN call.result.y ELSE call.newY

Verticals == SelectSeq(call.result.guides, LAMBDA g : g.type = "vertical")

Horizontals == SelectSeq(call.result.guides, LAMBDA g : g.type = "horizontal")

\* g is the guide of the named sibling check, of whichever sibling
IsElementGuide(g, check) ==
  \E i \in 0..Len(call.hook.elements) : g.id = ElementGuideId(i, check)

\* The coordinate the check that pushed guide g snaps the moving element to
TargetX(g) ==
  IF g.id = "canvas-left" \/ IsElementGuide(g, "left") \/ IsElementGuide(g, "side-right")
    THEN g.position
  ELSE IF g.id = "canvas-right" \/ IsElementGuide(g, "right") \/ IsElementGuide(g, "side-left")
    THEN RSub(g.position, call.movingElement.width)
  ELSE RSub(g.position, Half(call.movingElement.width))

TargetY(g) ==
  IF g.id = "canvas-top" \/ IsElementGuide(g, "top") \/ IsElementGuide(g, "stack-bottom")
    THEN g.position
  ELSE IF g.id = "canvas-bottom" \/ IsElementGuide(g, "bottom") \/ IsElementGuide(g, "stack-top")
    THEN RSub(g.position, call.movingElement.height)
  ELSE RSub(g.position, Half(call.movingElement.height))

XChecks == {"left", "right", "side-right", "side-left", "center-x"}

YChecks == {"top", "bottom", "stack-bottom", "stack-top", "center-y"}

\* The stage that pushed guide g: -2 canvas edges, -1 canvas center, i >= 0
\* the sibling of index i
StageOf(g) ==
  IF g.id \in {"canvas-left", "canvas-right", "canvas-top", "canvas-bottom"} THEN -2
  ELSE IF g.id \in {"canvas-center-x", "canvas-center-y"} THEN -1
  ELSE CHOOSE i \in 0..Len(call.hook.elements) :
         \E check \in XChecks \cup YChecks : g.id = ElementGuideId(i, check)

\* the guides of gs come from different stages, in stage order
StageOrdered(gs) ==
  \A i, j \in 1..Len(gs) : i < j => StageOf(gs[i]) < StageOf(gs[j])

CallOthers == otherElements(call.hook.elements, call.movingElement)

CallThreshold == Threshold(call.hook.zoom)

\* snappedX, snappedY and guides when the sibling loop reaches index i
StageBefore(i) ==
  StagesFrom([call.hook EXCEPT !.elements = SubSeq(CallOthers, 1, i)],
             call.movingElement,
             MovingBounds(call.movingElement, call.newX, call.newY),
             [x |-> call.newX, y |-> call.newY, guides |-> <<>>], CallThreshold)

\* the moving element where the loop has put it when it reaches index i
BoundsBefore(i) ==
  MovingBounds(call.movingElement, StageBefore(i).x, StageBefore(i).y)

SiblingBounds(i) == getElementBounds(CallOthers[i + 1])

\* some Y check (some X check) of the sibling of index i matches
MatchesY(i) ==
  \E g \in {Horizontals[n] : n \in 1..Len(Horizontals)} : StageOf(g) = i

MatchesX(i) ==
  \E g \in {Verticals[n] : n \in 1..Len(Verticals)} : StageOf(g) = i

Committed == ElementById(elements, last.id)

\* C7 (as stated): with the snap-enabled flag false detectSnaps returns no
\* corrected x, no corrected y and no guides, and the drag commits exactly
\* the clamped pointer position.
C7_DisabledCommitsClamped ==
  (DragCommitted /\ ~snapEnabled) =>
     /\ last.snap = NoSnap
     /\ Committed.x = last.clamped.x
     /\ Committed.y = last.clamped.y

\* C7 (amended): with the snap-enabled flag false detectSnaps returns no
\* corrected x, no corrected y and no guides, so the drag shows no guides and
\* hands exactly the clamped pointer position to the update callback; that
\* position is what is committed when the Canvas's grid snapping is off.
C7_DisabledIsNoOp ==
  (DragCommitted /\ ~snapEnabled) =>
     /\ last.snap = NoSnap
     /\ comp[last.id].activeGuides = <<>>
     /\ last.updates.x = last.clamped.x
     /\ last.updates.y = last.clamped.y
     /\ ~gridSnapEnabled =>
          Committed.x = last.clamped.x /\ Committed.y = last.clamped.y

\* C7 witness: with the flag false and the grid off, the element is dragged
\* to (103, 100), 3 away from its sibling's right edge at 100 where an enabled
\* detector snaps, and is committed at (103, 100).
C7_Witness ==
  /\ DragCommitted /\ ~snapEnabled /\ ~gridSnapEnabled
  /\ last.clamped = [x |-> I(103), y |-> I(100)]
  /\ detectSnaps(ElementHook(elements, zoom, TRUE), last.before,
                 I(103), I(100), TRUE).x = I(100)
  /\ Committed.x = I(103) /\ Committed.y = I(100)

\* the guide list of the call holds a guide with this id
HasGuide(id) == \E n \in 1..Len(call.result.guides) : call.result.guides[n].id = id

\* distance d is below 8 / zoom, compared as d * zoom < 8
Within(d) == RLt(RMul(d, call.hook.zoom), I(8))

\* the candidate's center
CandidateCenterX == RAdd(call.newX, Half(call.movingElement.width))

CandidateCenterY == RAdd(call.newY, Half(call.movingElement.height))

\* C8: the threshold is 8 / zoom canvas units: for zoom 1, 2 and 4 an
\* alignment at distance d snaps if and only if d < 8 / zoom.  Stated for the
\* checks that are evaluated unconditionally (canvas left, canvas top, canvas
\* center on both axes) and for the first check of every sibling's chain on
\* each axis (top-to-top, left-to-left, at the position reached so far).
C8_ThresholdScalesWithZoom ==
  (DetectCalled /\ call.snapEnabled) =>
     /\ HasGuide("canvas-left") <=> Within(MathAbs(call.newX))
     /\ HasGuide("canvas-top") <=> Within(MathAbs(call.newY))
     /\ HasGuide("canvas-center-x") <=>
          Within(MathAbs(RSub(CandidateCenterX, I(1920))))
     /\ HasGuide("canvas-center-y") <=>
          Within(MathAbs(RSub(CandidateCenterY, I(1080))))
     /\ \A i \in 0..(Len(CallOthers) - 1) :
          /\ HasGuide(ElementGuideId(i, "top")) <=>
               Within(MathAbs(RSub(StageBefore(i).y, CallOthers[i + 1].y)))
          /\ HasGuide(ElementGuideId(i, "left")) <=>
               Within(MathAbs(RSub(StageBefore(i).x, CallOthers[i + 1].x)))

\* C8 witness: at zoom 2 (threshold 4) a candidate 3 below the canvas top is
\* snapped to it while the same candidate, 7 right of the canvas left edge
\* (a distance that snaps at zoom 1), is left where it is.
C8_Witness ==
  /\ DetectCalled /\ call.snapEnabled
  /\ call.hook.zoom = I(2)
  /\ call.newX = I(7) /\ call.newY = I(3)
  /\ HasGuide("canvas-top") /\ call.result.y = I(0)
  /\ ~HasGuide("canvas-left") /\ call.result.x = Undefined

\* the element list with the moving element's own entry and every hidden
\* entry taken out
WithoutSelfAndHidden ==
  SelectSeq(call.hook.elements,
            LAMBDA el : ~(el.id = call.movingElement.id) /\ el.visible = TRUE)

\* C9: detectSnaps never snaps to the moving element itself or to a hidden
\* element: x, y and guides are those returned for the list without the
\* moving element's entry and without the hidden entries.
C9_IgnoresSelfAndHidden ==
  DetectCalled =>
     call.result = detectSnaps([call.hook EXCEPT !.elements = WithoutSelfAndHidden],
                               call.movingElement, call.newX, call.newY,
                               call.snapEnabled)

\* C9 witness: the candidate is within the threshold of the left edge of the
\* moving element's own list entry and of the top edge of a hidden element,
\* no visible sibling is near, and nothing is snapped.
C9_Witness ==
  /\ DetectCalled /\ call.snapEnabled
  /\ \E n \in 1..Len(call.hook.elements) :
       /\ call.hook.elements[n].id = call.movingElement.id
       /\ call.hook.elements[n].visible
       /\ Near(call.newX, call.hook.elements[n].x, CallThreshold)
  /\ \E n \in 1..Len(call.hook.elements) :
       /\ ~call.hook.elements[n].visible
       /\ Near(call.newY, call.hook.elements[n].y, CallThreshold)
  /\ call.result = NoSnap

AbutmentScenario ==
  /\ DetectCalled /\ call.snapEnabled
  /\ call.hook.zoom = I(1)
  /\ call.movingElement.width = I(50) /\ call.movingElement.height = I(50)
  /\ call.newX = I(103) /\ call.newY = I(100)
  /\ Len(CallOthers) = 1
  /\ CallOthers[1].x = I(0) /\ CallOthers[1].y = I(100)
  /\ CallOthers[1].width = I(100) /\ CallOthers[1].height = I(50)

ResizeCalled == call.fn = "calculateResize"

\* the resize-start snapshot has width >= 10 and height >= 10
SnapshotAtLeastMin ==
  /\ RLe(I(MIN_SIZE), call.resizeStart.width)
  /\ RLe(I(MIN_SIZE), call.resizeStart.height)

\* C11 (as stated): calculateResize returns newWidth >= 10 and newHeight >=
\* 10 for every handle, every delta and both values of the aspect-lock flag,
\* for a resize-start snapshot with width >= 10 and height >= 10.
C11_ResultAtLeastMin ==
  (ResizeCalled /\ SnapshotAtLeastMin) =>
     /\ RLe(I(MIN_SIZE), call.result.newWidth)
     /\ RLe(I(MIN_SIZE), call.result.newHeight)

\* the width (height) the handle of the call asks for, floored at 10
FlooredWidth ==
  IF call.handle \in {"se", "ne", "e"}
    THEN MathMax(I(10), RAdd(call.resizeStart.width, call.deltaX))
  ELSE IF call.handle \in {"sw", "nw", "w"}
    THEN MathMax(I(10), RSub(call.resizeStart.width, call.deltaX))
  ELSE call.resizeStart.width

FlooredHeight ==
  IF call.handle \in {"se", "sw", "s"}
    THEN MathMax(I(10), RAdd(call.resizeStart.height, call.deltaY))
  ELSE IF call.handle \in {"ne", "nw", "n"}
    THEN MathMax(I(10), RSub(call.resizeStart.height, call.deltaY))
  ELSE call.resizeStart.height

\* the larger of floored width / original width, floored height / original
LargerRatio ==
  MathMax(RDiv(FlooredWidth, call.resizeStart.width),
          RDiv(FlooredHeight, call.resizeStart.height))

Corners == {"nw", "ne", "sw", "se"}

\* C12: with aspect lock requested calculateResize preserves the aspect
\* ratio for every handle and delta (newWidth * originalHeight = newHeight *
\* originalWidth), and for corner handles both dimensions are the originals
\* multiplied by the larger of the two floored scale ratios.
C12_LockPreservesAspect ==
  (ResizeCalled /\ call.shiftKey) =>
     /\ RMul(call.result.newWidth, call.resizeStart.height)
          = RMul(call.result.newHeight, call.resizeStart.width)
     /\ call.handle \in Corners =>
          /\ call.result.newWidth = RMul(call.resizeStart.width, LargerRatio)
          /\ call.result.newHeight = RMul(call.resizeStart.height, LargerRatio)

\* C12 witness: nw handle on a 100 x 20 element, the width driven to the
\* floor (ratio 1/10) while the height grows to 30 (ratio 3/2): 150 x 30
C12_Witness ==
  /\ ResizeCalled /\ call.shiftKey /\ call.handle = "nw"
  /\ call.resizeStart.width = I(100) /\ call.resizeStart.height = I(20)
  /\ call.deltaX = I(4000) /\ call.deltaY = I(-10)
  /\ FlooredWidth = I(10) /\ FlooredHeight = I(30)
  /\ call.result.newWidth = I(150) /\ call.result.newHeight = I(30)

\* C14: calculateResize keeps the anchor fixed for every delta: handles w,
\* nw, sw keep the right edge, handles n, nw, ne keep the bottom edge, and for
\* every corner handle and every unlocked edge handle an axis whose near edge
\* the handle does not touch keeps its original x or y.
C14_AnchorFixed ==
  ResizeCalled =>
     /\ call.handle \in {"w", "nw", "sw"} =>
          RAdd(call.result.newX, call.result.newWidth)
            = RAdd(call.resizeStart.elementX, call.resizeStart.width)
     /\ call.handle \in {"n", "nw", "ne"} =>
          RAdd(call.result.newY, call.result.newHeight)
            = RAdd(call.resizeStart.elementY, call.resizeStart.height)
     /\ (call.handle \in {"se", "ne"} \/ (call.handle \in {"n", "s", "e"} /\ ~call.shiftKey))
          => call.result.newX = call.resizeStart.elementX
     /\ (call.handle \in {"se", "sw"} \/ (call.handle \in {"s", "e", "w"} /\ ~call.shiftKey))
          => call.result.newY = call.resizeStart.elementY

\* C14 witness: the w handle of an element at x = 100, width 100, dragged
\* 4000 to the right: the width stops at the floor and the right edge stays
\* at 200
C14_Witness ==
  /\ ResizeCalled /\ call.handle = "w" /\ ~call.shiftKey
  /\ call.resizeStart.elementX = I(100) /\ call.resizeStart.width = I(100)
  /\ call.deltaX = I(4000)
  /\ call.result.newWidth = I(10) /\ call.result.newX = I(190)

\* the call's snapshot, returned as it is
Unchanged ==
  Out(call.resizeStart.width, call.resizeStart.height,
      call.resizeStart.elementX, call.resizeStart.elementY)

ZeroDelta == call.deltaX = I(0) /\ call.deltaY = I(0)

\* the same call made on the element the first call returned
SecondCall ==
  calculateResize([call.resizeStart EXCEPT !.width = call.result.newWidth,
                                           !.height = call.result.newHeight,
                                           !.elementX = call.result.newX,
                                           !.elementY = call.result.newY],
                  call.deltaX, call.deltaY, call.handle, call.shiftKey)

AboveFloor == 
  /\ FlooredWidth # I(10) \/ call.handle \in {"n", "s"}
  /\ FlooredHeight # I(10) \/ call.handle \in {"e", "w"}

\* C16: without aspect lock and while no dimension reaches the floor, the se
\* handle returns (width + dx, height + dy, x, y) and the nw handle (width -
\* dx, height - dy, x + dx, y + dy); se from (0,0,100,100) with (50,20) gives
\* 150, 120, 0, 0 and nw from (100,100,100,100) with (-20,-10) gives 120,
\* 110, 80, 90.
C16_CornerArithmetic ==
  (ResizeCalled /\ ~call.shiftKey) =>
     /\ (call.handle = "se" /\ AboveFloor) =>
          call.result = Out(RAdd(call.resizeStart.width, call.deltaX),
                            RAdd(call.resizeStart.height, call.deltaY),
                            call.resizeStart.elementX, call.resizeStart.elementY)
     /\ (call.handle = "nw" /\ AboveFloor) =>
          call.result = Out(RSub(call.resizeStart.width, call.deltaX),
                            RSub(call.resizeStart.height, call.deltaY),
                            RAdd(call.resizeStart.elementX, call.deltaX),
                            RAdd(call.resizeStart.elementY, call.deltaY))
     /\ (call.handle = "se" /\ call.resizeStart = Snapshot(0, 0, I(100), I(100))
           /\ call.deltaX = I(50) /\ call.deltaY = I(20)) =>
          call.result = Out(I(150), I(120), I(0), I(0))
     /\ (call.handle = "nw" /\ call.resizeStart = Snapshot(100, 100, I(100), I(100))
           /\ call.deltaX = I(-20) /\ call.deltaY = I(-10)) =>
          call.result = Out(I(120), I(110), I(80), I(90))

\* C16 witness: the nw scenario
C16_Witness ==
  /\ ResizeCalled /\ ~call.shiftKey /\ call.handle = "nw"
  /\ call.resizeStart = Snapshot(100, 100, I(100), I(100))
  /\ call.deltaX = I(-20) /\ call.deltaY = I(-10)
  /\ call.result = Out(I(120), I(110), I(80), I(90))

\* C13 (as stated): for every resize pointer-move with aspect lock, the width
\* and height committed through the update callback, after the canvas
\* limiting, have the same ratio as the width and height at pointer-down.
C13_CommitKeepsAspect ==
  (last.kind = "resize" /\ last.shiftKey) =>
     RMul(last.sent.width, last.start.height)
       = RMul(last.sent.height, last.start.width)

\* a division of calculateResize whose divisor is zero: the height in
\* aspectRatio = width / height (every call) and in newHeight / height, the
\* width in newWidth / width, aspectRatio in newWidth / aspectRatio
DividesByZero(rs, handle, shiftKey) ==
  \/ rs.height = I(0)
  \/ shiftKey /\ handle \in Corners /\ rs.width = I(0)
  \/ shiftKey /\ handle \in {"e", "w"} /\ AspectRatio(rs) = I(0)

\* C17 (as stated): calculateResize never divides by zero: at every resize
\* move the divisors it uses (the snapshot's width and height and the
\* aspect ratio derived from them) are non-zero.
C17_NoDivisionByZero ==
  last.kind = "resize" =>
     ~DividesByZero(last.start, last.handle, last.shiftKey)

\* C18: snap guides exist only while a drag is in progress: in every
\* reachable state an element with no drag session active has an empty active
\* guide list; pointer-up empties the list, and it stays empty through later
\* pointer-moves until the next drag move after a pointer-down.
C18_GuidesOnlyWhileDragging ==
  \A id \in ElementIds(elements) :
     ~comp[id].isDragging => comp[id].activeGuides = <<>>

\* C18 witness: pointer-up on an element whose drag was showing guides
C18_Witness ==
  /\ last.kind = "up"
  /\ last.guides # <<>>
  /\ ~comp[last.id].isDragging
  /\ comp[last.id].activeGuides = <<>>

\* C19 (as stated): whenever a drag move triggers snaps, the guide list
\* handed to the Canvas's overlay renderer (SnapGuides) after that move is
\* exactly the list detectSnaps returned.
C19_OverlayShowsDetected ==
  (DragCommitted /\ last.snap.guides # <<>>) =>
     canvasGuides = last.snap.guides

\* C20 (as stated): keyboard nudging keeps the canvas invariant: after an
\* arrow-key nudge (1 or 10 units, any direction) of selected elements that
\* lay inside the canvas, every nudged element still satisfies 0 <= x,
\* 0 <= y, x + width <= 3840 and y + height <= 2160.
C20_NudgeKeepsInsideCanvas ==
  last.kind = "nudge" =>
     \A i \in 1..Len(elements) :
        (elements[i].id \in selectedElements /\ InCanvas(last.before[i]))
           => InCanvas(elements[i])

\* the guides of the result, as sets
VerticalSet == {Verticals[n] : n \in 1..Len(Verticals)}

HorizontalSet == {Horizontals[n] : n \in 1..Len(Horizontals)}

\* g was pushed by an edge check (not by a center check)
IsEdgeGuide(g) == g.color = EDGE_COLOR

\* the center check of the sibling of index i is within the threshold where
\* the loop has put the moving element when it reaches that sibling
CenterXNear(i) ==
  Near(BoundsBefore(i).centerX, SiblingBounds(i).centerX, CallThreshold)

CenterYNear(i) ==
  Near(BoundsBefore(i).centerY, SiblingBounds(i).centerY, CallThreshold)

\* C21 (as stated): whenever, in one detectSnaps call, an edge check and a
\* center check on the same axis are both within the threshold (canvas edge
\* and canvas center, or a sibling's edge and that sibling's center), the
\* returned coordinate on that axis is the edge-aligned one.
C21_EdgeBeforeCenter ==
  (DetectCalled /\ call.snapEnabled) =>
     /\ \A g \in VerticalSet :
          /\ (StageOf(g) = -2 /\ HasGuide("canvas-center-x")) => FinalX = TargetX(g)
          /\ (StageOf(g) >= 0 /\ IsEdgeGuide(g) /\ CenterXNear(StageOf(g)))
               => FinalX = TargetX(g)
     /\ \A g \in HorizontalSet :
          /\ (StageOf(g) = -2 /\ HasGuide("canvas-center-y")) => FinalY = TargetY(g)
          /\ (StageOf(g) >= 0 /\ IsEdgeGuide(g) /\ CenterYNear(StageOf(g)))
               => FinalY = TargetY(g)

\* the left edge, right edge and center-x (top, bottom, center-y) of the
\* moving element at the position detectSnaps leaves it at
FinalXs ==
  {FinalX, RAdd(FinalX, call.movingElement.width),
   RAdd(FinalX, Half(call.movingElement.width))}

FinalYs ==
  {FinalY, RAdd(FinalY, call.movingElement.height),
   RAdd(FinalY, Half(call.movingElement.height))}

\* C22 (as stated): every guide detectSnaps returns indicates a snap that is
\* applied: for each vertical guide at position p the moving element at the
\* returned x has its left edge, right edge or center-x at p, and for each
\* horizontal guide at p its top, bottom or center-y at the returned y is p,
\* for any number of siblings.
C22_GuidesAreApplied ==
  DetectCalled =>
     /\ \A g \in VerticalSet : g.position \in FinalXs
     /\ \A g \in HorizontalSet : g.position \in FinalYs

\* C27 (as stated): snapping moves the element by less than the threshold on
\* each axis: a returned x differs from the candidate newX by less than
\* 8 / zoom and a returned y from the candidate newY by less than 8 / zoom,
\* for any number of visible siblings.
C27_SnapMovesLessThanThreshold ==
  DetectCalled =>
     /\ call.result.x # Undefined => Within(MathAbs(RSub(call.result.x, call.newX)))
     /\ call.result.y # Undefined => Within(MathAbs(RSub(call.result.y, call.newY)))

\* the center of the snapshot and of the result of the call, per axis
StartCenterX == RAdd(call.resizeStart.elementX, Half(call.resizeStart.width))

StartCenterY == RAdd(call.resizeStart.elementY, Half(call.resizeStart.height))

ResultCenterX == RAdd(call.result.newX, Half(call.result.newWidth))

ResultCenterY == RAdd(call.result.newY, Half(call.result.newHeight))

\* C23: for a single-edge handle with aspect lock calculateResize keeps the
\* element centered on the untouched axis for every delta (handles n, s:
\* newX + newWidth / 2 = x + width / 2; handles e, w: newY + newHeight / 2 =
\* y + height / 2), and the edge opposite the handle stays where it was.
C23_LockedEdgeStaysCentered ==
  (ResizeCalled /\ call.shiftKey) =>
     /\ call.handle \in {"n", "s"} => ResultCenterX = StartCenterX
     /\ call.handle \in {"e", "w"} => ResultCenterY = StartCenterY
     /\ call.handle = "n" =>
          RAdd(call.result.newY, call.result.newHeight)
            = RAdd(call.resizeStart.elementY, call.resizeStart.height)
     /\ call.handle = "s" => call.result.newY = call.resizeStart.elementY
     /\ call.handle = "e" => call.result.newX = call.resizeStart.elementX
     /\ call.handle = "w" =>
          RAdd(call.result.newX, call.result.newWidth)
            = RAdd(call.resizeStart.elementX, call.resizeStart.width)

\* C23 witness: the s handle of a 100 x 20 element at (100, 100) pulled down
\* by 20 with the lock: 200 x 40 at x = 50, the center-x still at 150
C23_Witness ==
  /\ ResizeCalled /\ call.shiftKey /\ call.handle = "s"
  /\ call.resizeStart = Snapshot(100, 100, I(100), I(20))
  /\ call.deltaY = I(20)
  /\ call.result = Out(I(200), I(40), I(50), I(100))
  /\ ResultCenterX = I(150)

\* the element of the last resize move as it was at pointer-down
StartElement ==
  [last.before EXCEPT !.x = last.start.elementX, !.y = last.start.elementY,
                      !.width = last.start.width, !.height = last.start.height]

\* a resize move (no drag in progress) with the Canvas's grid snapping off
ResizeCommitted == last.kind = "resize" /\ ~last.dragging /\ ~gridSnapEnabled

\* C24 (as stated): each pointer-move computation is independent of earlier
\* moves in the same gesture: the x, y, width and height committed after a
\* pointer-move are those that the same pointer position commits as the
\* first move after the same pointer-down, whatever moves came before.
C24_MoveIndependentOfEarlierMoves ==
  ResizeCommitted =>
     last.sent = CanvasOnUpdate(StartElement, last.updates, gridSnapEnabled)

\* the box calculateResize returned lies inside the canvas
CalcInsideCanvas ==
  InCanvas([x |-> last.calc.newX, y |-> last.calc.newY,
            width |-> last.calc.newWidth, height |-> last.calc.newHeight])

\* C28 (as stated): after a resize pointer-move is committed through the
\* Canvas update callback, the edge opposite the active handle is where it
\* was at pointer-down whenever the box calculateResize computed lies inside
\* the canvas: handles w, nw, sw keep x + width, handles n, nw, ne keep
\* y + height, on every move of the gesture including the first.
C28_CommitKeepsOppositeEdge ==
  (ResizeCommitted /\ CalcInsideCanvas) =>
     /\ last.handle \in {"w", "nw", "sw"} =>
          RAdd(last.sent.x, last.sent.width)
            = RAdd(last.start.elementX, last.start.width)
     /\ last.handle \in {"n", "nw", "ne"} =>
          RAdd(last.sent.y, last.sent.height)
            = RAdd(last.start.elementY, last.start.height)

\* C25 (as stated): at most one drag / resize session is active at a time:
\* in every state reachable by pointer-down, pointer-move and pointer-up
\* events over several elements no element has both its dragging flag and
\* its resizing handle set, and no two elements have an active session at
\* once (so that every pointer-move of a gesture updates one element only).
C25_SingleSession ==
  /\ \A id \in ElementIds(elements) :
       ~(comp[id].isDragging /\ comp[id].isResizing # "null")
  /\ \A id1, id2 \in ElementIds(elements) :
       (Active(comp[id1]) /\ Active(comp[id2])) => id1 = id2

\* the pointer-down snapshots a move may have used, by pointer position
DragFrom(c, element, p) ==
  clampToCanvas(CanvasSize,
                RAdd(c.dragStart.elementX, Delta(p[1], c.dragStart.x, zoom)),
                RAdd(c.dragStart.elementY, Delta(p[2], c.dragStart.y, zoom)),
                element.width, element.height)

DownCaptured(c, element) ==
  \E p \in SessionDownPoints :
    c.dragStart = [x |-> I(p[1]), y |-> I(p[2]),
                   elementX |-> element.x, elementY |-> element.y]

ResizeStartCaptured(c, element) ==
  \E p \in SessionDownPoints :
    c.resizeStart = [x |-> I(p[1]), y |-> I(p[2]),
                     width |-> element.width, height |-> element.height,
                     elementX |-> element.x, elementY |-> element.y]

\* C26: a session ends at pointer-up. After a pointer-up the dragging flag
\* is false and the resizing handle is null; an element update by a
\* pointer-move happens only inside a session, i.e. not between a pointer-up
\* and the next pointer-down; and a gesture computes from the width, height,
\* x, y and pointer position captured at its own pointer-down: the snapshot
\* taken at a pointer-down is the element as it is then, and every move is
\* computed from the snapshot the component holds.
C26_SessionEndsAtPointerUp ==
  LET c == comp["a"]
      element == ElementById(elements, "a")
  IN  /\ last.kind = "up" => (~c.isDragging /\ c.isResizing = "null")
      /\ last.kind \in {"drag", "resize"} => Active(c)
      /\ last.kind = "down" => (c.isDragging /\ DownCaptured(c, element))
      /\ last.kind = "resizeStart" =>
           (c.isResizing # "null" /\ ResizeStartCaptured(c, element))
      /\ (last.kind \in {"drag", "resize"} /\ last.dragging) =>
           \E p \in SessionMovePoints : last.clamped = DragFrom(c, last.before, p)
      /\ last.kind = "resize" =>
           /\ last.start = c.resizeStart
           /\ \E p \in SessionMovePoints, k \in BOOLEAN :
                last.calc = ResizeMove(c, zoom, p[1], p[2], k).calc

\* a second drag begins after the first one moved the element and ended:
\* its snapshot is the moved element, not the first gesture's snapshot
C26_Witness ==
  /\ last.kind = "down"
  /\ nEvents = 4
  /\ comp["a"].isDragging
  /\ comp["a"].isResizing = "null"
  /\ ElementById(elements, "a").x = I(0)
  /\ comp["a"].dragStart.elementX = I(0)
  /\ comp["a"].dragStart.x = I(10)

Geometry(element) == <<element.x, element.y, element.width, element.height>>

LockedIds == {id \in ElementIds(elements) : ElementById(elements, id).locked}

DragSnapped ==
  IF snapEnabled
  THEN SnapStages(ElementHook(elements, zoom, snapEnabled), last.before,
                  last.clamped.x, last.clamped.y)
  ELSE [x |-> last.clamped.x, y |-> last.clamped.y, guides |-> <<>>]

====
